---- MODULE Spec2Model ----
(***************************************************************************)
(* Model of photobooth.py: the button-driven, time-driven controller of a  *)
(* photo kiosk.  The module-level globals of the program are the           *)
(* variables; button_event and update are the operations.                  *)
(*                                                                         *)
(* Time is counted in ticks of 1/Unit second, so that the float            *)
(* comparisons of the program (a > b, a % p > p / 2) are integer           *)
(* comparisons here.                                                       *)
(***************************************************************************)
EXTENDS Integers, Sequences, FiniteSets, TLC

VARIABLES
    CURRENT_STATE,        \* src 98
    TOTAL_TIME,           \* src 99, in 1/Unit s
    STATE_START,          \* src 100, in 1/Unit s
    CURRENT_PHOTO_PATH,   \* src 101: "None" or a path
    VIDEO_FEED_POPEN,     \* src 102: "None", or the process behind the handle: "running" / "exited"
    PHOTO_PREVIEW_POPEN,  \* src 103: the same for the feh process
    feed_orphans,         \* running gphoto2 feed processes whose handle was overwritten (src 118)
    preview_orphans,      \* running feh processes whose handle was overwritten (src 135)
    is_on,                \* BUTTON_LED.is_on (src 34)
    pin,                  \* level last written to the LED pin (src 36, 44, 52)
    fatal,                \* exception that left update() and ended main()'s loop, or "none"
    event,                \* the kind of the last step: "none", "press", "tick", "proc_exit"
    calls,                \* the external calls the last step made, in order
    upc,                  \* main thread: the line of update() it is at, or "idle"
    bpc,                  \* GPIO event thread: the line of button_event() it is at, or "idle"
    now,                  \* time.time(), in 1/Unit s since main() began (src 262, 265)
    last_time,            \* main()'s last_time (src 262, 267)
    shown_at              \* time.time() when the feh on display was started (src 135), 0 with none

vars == <<CURRENT_STATE, TOTAL_TIME, STATE_START, CURRENT_PHOTO_PATH,
          VIDEO_FEED_POPEN, PHOTO_PREVIEW_POPEN, feed_orphans, preview_orphans,
          is_on, pin, fatal, event, calls, upc, bpc, now, last_time, shown_at>>

\* The wall clock of main(); update(dt) and button_event see dt and TOTAL_TIME only.
wall == <<now, last_time, shown_at>>

(* ------------------------------ constants ------------------------------ *)

States == {"IDLE", "COUNTDOWN", "PRINT_CHECK", "SLEEP"}

BLINK_PERIOD == 1
COUNTDOWN_DURATION == 8
PRINT_CHECK_DURATION == 10
TIME_BEFORE_SLEEP == 30

(* ------------------------------- bounds -------------------------------- *)

\* Ticks per second: the resolution of time.
Unit == 4
\* A press that wakes the booth or starts a countdown arrives within
\* StartHorizon ticks of SLEEP or IDLE being entered, and in the first
\* PressHorizon ticks of the run; a press during COUNTDOWN or PRINT_CHECK
\* arrives at any time.
StartHorizon == 6
PressHorizon == 80
\* update() is observed for MaxSleep ticks of time after SLEEP is entered.
MaxSleep == 9
\* With the two threads interleaved, update() is called with dt = 0 or
\* dt = ConcDt, until TOTAL_TIME reaches MaxConcTicks * ConcDt.
MaxConcTicks == 5

\* The file names take_photo builds from the wall clock at two different
\* seconds (src 142-143).
PhotoPaths == {"3-14_5_9.jpg", "3-14_5_10.jpg"}
\* A dt larger than the three durations together.
BigDt == (COUNTDOWN_DURATION + PRINT_CHECK_DURATION + TIME_BEFORE_SLEEP) * Unit + 1
DtSet == {0, 1, 3, BigDt}
\* A dt larger than COUNTDOWN_DURATION and PRINT_CHECK_DURATION.
ConcDt == (PRINT_CHECK_DURATION + 1) * Unit
ConcDtSet == {0, ConcDt}
ConcMaxTime == MaxConcTicks * ConcDt

(* ------------------------------- helpers ------------------------------- *)

Call(op, arg) == [op |-> op, arg |-> arg]

\* Popen(...) gives a handle on a new, running process.
Popen == "running"

\* Faulty variant: the process is not stopped.
terminate_wait_Skipped(h) == h

\* terminate() then wait() on a handle: the process is gone.
terminate_wait(h) == "exited"

\* The process a handle referred to keeps running when the handle is overwritten.
Orphaned(h) == IF h = "running" THEN 1 ELSE 0

\* Faulty variant: the exit of the process is never noticed.
poll_not_none_Never(h) == FALSE

\* poll() is not None
poll_not_none(h) == h = "exited"

\* Faulty variant: the countdown compared with the wrong duration.
countdown_over_WrongDuration(total, start) == total - start > PRINT_CHECK_DURATION * Unit
\* Faulty variant: >= for >.
print_check_over_Inclusive(total, start) == total - start >= PRINT_CHECK_DURATION * Unit
\* Faulty variant: >= for >.
idle_over_Inclusive(total, start) == total - start >= TIME_BEFORE_SLEEP * Unit

countdown_over(total, start) == total - start > COUNTDOWN_DURATION * Unit
print_check_over(total, start) == total - start > PRINT_CHECK_DURATION * Unit
idle_over(total, start) == total - start > TIME_BEFORE_SLEEP * Unit

\* Faulty variant: lit in the first half of the period.
blink_on_FirstHalf(total) == 2 * (total % (BLINK_PERIOD * Unit)) < BLINK_PERIOD * Unit

\* TOTAL_TIME % BLINK_PERIOD > BLINK_PERIOD / 2
blink_on(total) == 2 * (total % (BLINK_PERIOD * Unit)) > BLINK_PERIOD * Unit

\* Faulty variant: the light stays on during the countdown.
led_wanted_LitInCountdown(state, total) ==
    IF state = "SLEEP" THEN blink_on(total) ELSE TRUE

\* The value update() wants the LED to have (src 241-252).
led_wanted(state, total) ==
    IF state = "SLEEP" THEN blink_on(total)
    ELSE IF state \in {"IDLE", "PRINT_CHECK"} THEN TRUE
    ELSE FALSE

\* LED.on / LED.off: write the pin only when the cached value differs.
led_calls(want) ==
    IF want # is_on THEN <<Call("GPIO.output", IF want THEN "1" ELSE "0")>> ELSE <<>>

\* Faulty variant: the pin is written but the cached value is not kept.
led_set_NoCache(want) ==
    /\ is_on' = is_on
    /\ pin' = IF want # is_on THEN want ELSE pin

led_set(want) ==
    /\ is_on' = want
    /\ pin' = IF want # is_on THEN want ELSE pin

\* The calls of the COUNTDOWN branch of update, in order (src 215-217).
countdown_over_calls(path) ==
    <<Call("kill_video_feed", ""), Call("take_photo", path),
      Call("start_photo_preview", path)>>

\* Faulty variant: the photo is not printed.
print_check_over_calls_NoPrint(path) ==
    <<Call("kill_photo_preview", ""), Call("start_video_feed", "")>>

\* The calls of the PRINT_CHECK branch of update, in order (src 226-228).
print_check_over_calls(path) ==
    <<Call("kill_photo_preview", ""), Call("print_photo", path),
      Call("start_video_feed", "")>>

\* The calls of the PRINT_CHECK branch of button_event, in order (src 179-180).
cancel_print_calls ==
    <<Call("kill_photo_preview", ""), Call("start_video_feed", "")>>

(* -------------------------------- Init --------------------------------- *)

Init ==
    /\ CURRENT_STATE = "SLEEP"
    /\ TOTAL_TIME = 0
    /\ STATE_START = 0
    /\ CURRENT_PHOTO_PATH = "None"
    /\ VIDEO_FEED_POPEN = "None"
    /\ PHOTO_PREVIEW_POPEN = "None"
    /\ feed_orphans = 0
    /\ preview_orphans = 0
    /\ is_on = FALSE
    /\ pin = FALSE
    /\ fatal = "none"
    /\ event = "none"
    /\ calls = <<>>
    /\ upc = "idle"
    /\ bpc = "idle"
    /\ now = 0
    /\ last_time = 0
    /\ shown_at = 0

(* ----------------------------- button_event ---------------------------- *)

\* Faulty variant: waking up does not start the feed.
ButtonSleep_NoFeed ==
    /\ CURRENT_STATE = "SLEEP"
    /\ TOTAL_TIME - STATE_START <= StartHorizon
    /\ TOTAL_TIME <= PressHorizon
    /\ STATE_START' = TOTAL_TIME
    /\ CURRENT_STATE' = "IDLE"
    /\ calls' = <<>>
    /\ UNCHANGED <<TOTAL_TIME, CURRENT_PHOTO_PATH, VIDEO_FEED_POPEN,
                   PHOTO_PREVIEW_POPEN, feed_orphans, preview_orphans,
                   is_on, pin, fatal>>

\* Wake up from sleep (src 168-172).
ButtonSleep ==
    /\ CURRENT_STATE = "SLEEP"
    /\ TOTAL_TIME - STATE_START <= StartHorizon
    /\ TOTAL_TIME <= PressHorizon
    /\ VIDEO_FEED_POPEN' = Popen
    /\ feed_orphans' = feed_orphans + Orphaned(VIDEO_FEED_POPEN)
    /\ STATE_START' = TOTAL_TIME
    /\ CURRENT_STATE' = "IDLE"
    /\ calls' = <<Call("start_video_feed", "")>>
    /\ UNCHANGED <<TOTAL_TIME, CURRENT_PHOTO_PATH, PHOTO_PREVIEW_POPEN,
                   preview_orphans, is_on, pin, fatal>>

\* Faulty variant: the countdown begins without STATE_START being set.
ButtonIdle_KeepsStart ==
    /\ CURRENT_STATE = "IDLE"
    /\ TOTAL_TIME - STATE_START <= StartHorizon
    /\ TOTAL_TIME <= PressHorizon
    /\ CURRENT_STATE' = "COUNTDOWN"
    /\ calls' = <<>>
    /\ UNCHANGED <<TOTAL_TIME, STATE_START, CURRENT_PHOTO_PATH, VIDEO_FEED_POPEN,
                   PHOTO_PREVIEW_POPEN, feed_orphans, preview_orphans,
                   is_on, pin, fatal>>

\* Start countdown (src 174-176).
ButtonIdle ==
    /\ CURRENT_STATE = "IDLE"
    /\ TOTAL_TIME - STATE_START <= StartHorizon
    /\ TOTAL_TIME <= PressHorizon
    /\ STATE_START' = TOTAL_TIME
    /\ CURRENT_STATE' = "COUNTDOWN"
    /\ calls' = <<>>
    /\ UNCHANGED <<TOTAL_TIME, CURRENT_PHOTO_PATH, VIDEO_FEED_POPEN,
                   PHOTO_PREVIEW_POPEN, feed_orphans, preview_orphans,
                   is_on, pin, fatal>>

\* Faulty variant: the cancelling press also forgets the photo.
ButtonPrintCheck_ClearsPath ==
    /\ CURRENT_STATE = "PRINT_CHECK"
    /\ PHOTO_PREVIEW_POPEN # "None"
    /\ PHOTO_PREVIEW_POPEN' = "exited"
    /\ VIDEO_FEED_POPEN' = "running"
    /\ feed_orphans' = feed_orphans + (IF VIDEO_FEED_POPEN = "running" THEN 1 ELSE 0)
    /\ CURRENT_STATE' = "IDLE"
    /\ STATE_START' = TOTAL_TIME
    /\ CURRENT_PHOTO_PATH' = "None"
    /\ calls' = <<Call("kill_photo_preview", ""), Call("start_video_feed", "")>>
    /\ UNCHANGED <<TOTAL_TIME, preview_orphans, is_on, pin, fatal>>

\* Cancel print by going directly to IDLE (src 178-182).
ButtonPrintCheck ==
    /\ CURRENT_STATE = "PRINT_CHECK"
    /\ PHOTO_PREVIEW_POPEN # "None"   \* set before PRINT_CHECK is (src 217-219)
    /\ PHOTO_PREVIEW_POPEN' = terminate_wait(PHOTO_PREVIEW_POPEN)
    /\ VIDEO_FEED_POPEN' = Popen
    /\ feed_orphans' = feed_orphans + Orphaned(VIDEO_FEED_POPEN)
    /\ CURRENT_STATE' = "IDLE"
    /\ STATE_START' = TOTAL_TIME
    /\ calls' = cancel_print_calls
    /\ UNCHANGED <<TOTAL_TIME, CURRENT_PHOTO_PATH, preview_orphans,
                   is_on, pin, fatal>>

\* Faulty variant: a press in COUNTDOWN cancels the countdown.
ButtonCountdown_Cancels ==
    /\ CURRENT_STATE = "COUNTDOWN"
    /\ CURRENT_STATE' = "IDLE"
    /\ STATE_START' = TOTAL_TIME
    /\ calls' = <<>>
    /\ UNCHANGED <<TOTAL_TIME, CURRENT_PHOTO_PATH, VIDEO_FEED_POPEN,
                   PHOTO_PREVIEW_POPEN, feed_orphans, preview_orphans,
                   is_on, pin, fatal>>

\* Faulty variant: a press in COUNTDOWN restarts the countdown.
ButtonCountdown_Restarts ==
    /\ CURRENT_STATE = "COUNTDOWN"
    /\ STATE_START' = TOTAL_TIME
    /\ calls' = <<>>
    /\ UNCHANGED <<CURRENT_STATE, TOTAL_TIME, CURRENT_PHOTO_PATH,
                   VIDEO_FEED_POPEN, PHOTO_PREVIEW_POPEN, feed_orphans,
                   preview_orphans, is_on, pin, fatal>>

\* No branch of button_event is taken in COUNTDOWN (src 168-182).
ButtonCountdown ==
    /\ CURRENT_STATE = "COUNTDOWN"
    /\ calls' = <<>>
    /\ UNCHANGED <<CURRENT_STATE, TOTAL_TIME, STATE_START, CURRENT_PHOTO_PATH,
                   VIDEO_FEED_POPEN, PHOTO_PREVIEW_POPEN, feed_orphans,
                   preview_orphans, is_on, pin, fatal>>

\* The GPIO library calls button_event while main()'s loop runs (src 201).
Pressed ==
    /\ fatal = "none"
    /\ event' = "press"
    /\ UNCHANGED <<upc, bpc>>
    /\ UNCHANGED wall

button_event ==
    \/ Pressed /\ ButtonSleep
    \/ Pressed /\ ButtonIdle
    \/ Pressed /\ ButtonPrintCheck
    \/ Pressed /\ ButtonCountdown

(* -------------------------------- update ------------------------------- *)

\* The end of update(): the button light follows the state (src 241-252).
led_update(state, total, before) ==
    /\ led_set(led_wanted(state, total))
    /\ calls' = before \o led_calls(led_wanted(state, total))

\* Faulty variant: the PRINT_CHECK row is applied in the same call.
UpdateCountdownOver_Chains(total, path) ==
    /\ CURRENT_STATE = "COUNTDOWN"
    /\ countdown_over(total, STATE_START)
    /\ VIDEO_FEED_POPEN # "None"
    /\ VIDEO_FEED_POPEN' = Popen
    /\ CURRENT_PHOTO_PATH' = path
    /\ PHOTO_PREVIEW_POPEN' = terminate_wait(Popen)
    /\ preview_orphans' = preview_orphans + Orphaned(PHOTO_PREVIEW_POPEN)
    /\ STATE_START' = total
    /\ CURRENT_STATE' = "IDLE"
    /\ led_update("IDLE", total,
                  countdown_over_calls(path) \o print_check_over_calls(path))
    /\ UNCHANGED <<feed_orphans, fatal>>

\* COUNTDOWN, time is up, take_photo succeeds and names the file path (src 213-219).
UpdateCountdownOver(total, path) ==
    /\ CURRENT_STATE = "COUNTDOWN"
    /\ countdown_over(total, STATE_START)
    /\ VIDEO_FEED_POPEN # "None"   \* set before IDLE is (src 170-172, 228-230)
    /\ VIDEO_FEED_POPEN' = terminate_wait(VIDEO_FEED_POPEN)
    /\ CURRENT_PHOTO_PATH' = path
    /\ PHOTO_PREVIEW_POPEN' = Popen
    /\ preview_orphans' = preview_orphans + Orphaned(PHOTO_PREVIEW_POPEN)
    /\ STATE_START' = total
    /\ CURRENT_STATE' = "PRINT_CHECK"
    /\ led_update("PRINT_CHECK", total, countdown_over_calls(path))
    /\ UNCHANGED <<feed_orphans, fatal>>

\* Faulty variant: the preview is started although the capture failed.
UpdateCountdownFail_StartsPreview(total) ==
    /\ CURRENT_STATE = "COUNTDOWN"
    /\ countdown_over(total, STATE_START)
    /\ VIDEO_FEED_POPEN # "None"
    /\ VIDEO_FEED_POPEN' = terminate_wait(VIDEO_FEED_POPEN)
    /\ PHOTO_PREVIEW_POPEN' = Popen
    /\ fatal' = "CalledProcessError"
    /\ calls' = <<Call("kill_video_feed", ""), Call("take_photo", ""),
                  Call("start_photo_preview", "")>>
    /\ UNCHANGED <<CURRENT_STATE, STATE_START, CURRENT_PHOTO_PATH,
                   feed_orphans, preview_orphans, is_on, pin>>

\* COUNTDOWN, time is up, gphoto2 exits nonzero: check_call raises (src 144),
\* update() is left at line 216 and main() ends.
UpdateCountdownFail(total) ==
    /\ CURRENT_STATE = "COUNTDOWN"
    /\ countdown_over(total, STATE_START)
    /\ VIDEO_FEED_POPEN # "None"
    /\ VIDEO_FEED_POPEN' = terminate_wait(VIDEO_FEED_POPEN)
    /\ fatal' = "CalledProcessError"
    /\ calls' = <<Call("kill_video_feed", ""), Call("take_photo", "")>>
    /\ UNCHANGED <<CURRENT_STATE, STATE_START, CURRENT_PHOTO_PATH,
                   PHOTO_PREVIEW_POPEN, feed_orphans, preview_orphans, is_on, pin>>

\* COUNTDOWN, time is not up (src 220-222).
UpdateCountdownWait(total) ==
    /\ CURRENT_STATE = "COUNTDOWN"
    /\ ~countdown_over(total, STATE_START)
    /\ led_update("COUNTDOWN", total, <<>>)
    /\ UNCHANGED <<CURRENT_STATE, STATE_START, CURRENT_PHOTO_PATH, VIDEO_FEED_POPEN,
                   PHOTO_PREVIEW_POPEN, feed_orphans, preview_orphans, fatal>>

\* PRINT_CHECK, time is up (src 224-230).
UpdatePrintCheckOver(total) ==
    /\ CURRENT_STATE = "PRINT_CHECK"
    /\ print_check_over(total, STATE_START)
    /\ PHOTO_PREVIEW_POPEN # "None"
    /\ PHOTO_PREVIEW_POPEN' = terminate_wait(PHOTO_PREVIEW_POPEN)
    /\ VIDEO_FEED_POPEN' = Popen
    /\ feed_orphans' = feed_orphans + Orphaned(VIDEO_FEED_POPEN)
    /\ STATE_START' = total
    /\ CURRENT_STATE' = "IDLE"
    /\ led_update("IDLE", total, print_check_over_calls(CURRENT_PHOTO_PATH))
    /\ UNCHANGED <<CURRENT_PHOTO_PATH, preview_orphans, fatal>>

\* PRINT_CHECK, time is not up (src 224-225).
UpdatePrintCheckWait(total) ==
    /\ CURRENT_STATE = "PRINT_CHECK"
    /\ ~print_check_over(total, STATE_START)
    /\ led_update("PRINT_CHECK", total, <<>>)
    /\ UNCHANGED <<CURRENT_STATE, STATE_START, CURRENT_PHOTO_PATH, VIDEO_FEED_POPEN,
                   PHOTO_PREVIEW_POPEN, feed_orphans, preview_orphans, fatal>>

\* Faulty variant: going to sleep leaves the feed running.
UpdateIdleOver_KeepsFeed(total) ==
    /\ CURRENT_STATE = "IDLE"
    /\ idle_over(total, STATE_START)
    /\ STATE_START' = total
    /\ CURRENT_STATE' = "SLEEP"
    /\ led_update("SLEEP", total, <<>>)
    /\ UNCHANGED <<CURRENT_PHOTO_PATH, VIDEO_FEED_POPEN, PHOTO_PREVIEW_POPEN,
                   feed_orphans, preview_orphans, fatal>>

\* IDLE, time is up (src 232-237).
UpdateIdleOver(total) ==
    /\ CURRENT_STATE = "IDLE"
    /\ idle_over(total, STATE_START)
    /\ VIDEO_FEED_POPEN # "None"
    /\ VIDEO_FEED_POPEN' = terminate_wait(VIDEO_FEED_POPEN)
    /\ STATE_START' = total
    /\ CURRENT_STATE' = "SLEEP"
    /\ led_update("SLEEP", total, <<Call("kill_video_feed", "")>>)
    /\ UNCHANGED <<CURRENT_PHOTO_PATH, PHOTO_PREVIEW_POPEN, feed_orphans,
                   preview_orphans, fatal>>

\* IDLE, time is not up, the feed has exited: RuntimeError (src 238-239).
UpdateIdleFeedDied(total) ==
    /\ CURRENT_STATE = "IDLE"
    /\ ~idle_over(total, STATE_START)
    /\ poll_not_none(VIDEO_FEED_POPEN)
    /\ fatal' = "RuntimeError"
    /\ calls' = <<>>
    /\ UNCHANGED <<CURRENT_STATE, STATE_START, CURRENT_PHOTO_PATH, VIDEO_FEED_POPEN,
                   PHOTO_PREVIEW_POPEN, feed_orphans, preview_orphans, is_on, pin>>

\* IDLE, time is not up, the feed runs (src 232-238).
UpdateIdleWait(total) ==
    /\ CURRENT_STATE = "IDLE"
    /\ ~idle_over(total, STATE_START)
    /\ ~poll_not_none(VIDEO_FEED_POPEN)
    /\ led_update("IDLE", total, <<>>)
    /\ UNCHANGED <<CURRENT_STATE, STATE_START, CURRENT_PHOTO_PATH, VIDEO_FEED_POPEN,
                   PHOTO_PREVIEW_POPEN, feed_orphans, preview_orphans, fatal>>

\* SLEEP: no branch of lines 213-239, the light blinks (src 242-246).
UpdateSleep(total) ==
    /\ CURRENT_STATE = "SLEEP"
    /\ total - STATE_START <= MaxSleep
    /\ led_update("SLEEP", total, <<>>)
    /\ UNCHANGED <<CURRENT_STATE, STATE_START, CURRENT_PHOTO_PATH, VIDEO_FEED_POPEN,
                   PHOTO_PREVIEW_POPEN, feed_orphans, preview_orphans, fatal>>

\* Faulty variant: dt is counted twice.
Elapse_Twice(dt) ==
    /\ fatal = "none"
    /\ event' = "tick"
    /\ UNCHANGED <<upc, bpc>>
    /\ UNCHANGED wall
    /\ TOTAL_TIME' = TOTAL_TIME + 2 * dt

\* TOTAL_TIME += dt (src 211).
Elapse(dt) ==
    /\ fatal = "none"
    /\ event' = "tick"
    /\ UNCHANGED <<upc, bpc>>
    /\ UNCHANGED wall
    /\ TOTAL_TIME' = TOTAL_TIME + dt

update(dt) ==
    \/ \E path \in PhotoPaths :
           Elapse(dt) /\ UpdateCountdownOver(TOTAL_TIME + dt, path)
    \/ Elapse(dt) /\ UpdateCountdownFail(TOTAL_TIME + dt)
    \/ Elapse(dt) /\ UpdateCountdownWait(TOTAL_TIME + dt)
    \/ Elapse(dt) /\ UpdatePrintCheckOver(TOTAL_TIME + dt)
    \/ Elapse(dt) /\ UpdatePrintCheckWait(TOTAL_TIME + dt)
    \/ Elapse(dt) /\ UpdateIdleOver(TOTAL_TIME + dt)
    \/ Elapse(dt) /\ UpdateIdleFeedDied(TOTAL_TIME + dt)
    \/ Elapse(dt) /\ UpdateIdleWait(TOTAL_TIME + dt)
    \/ Elapse(dt) /\ UpdateSleep(TOTAL_TIME + dt)

(* ------------------------------ environment ---------------------------- *)

\* The gphoto2 feed process exits on its own.
FeedExits ==
    /\ fatal = "none"
    /\ VIDEO_FEED_POPEN = "running"
    /\ VIDEO_FEED_POPEN' = "exited"
    /\ event' = "proc_exit"
    /\ calls' = <<>>
    /\ UNCHANGED <<CURRENT_STATE, TOTAL_TIME, STATE_START, CURRENT_PHOTO_PATH,
                   PHOTO_PREVIEW_POPEN, feed_orphans, preview_orphans, is_on, pin,
                   fatal, upc, bpc>>
    /\ UNCHANGED wall

\* The feh process exits on its own.
PreviewExits ==
    /\ fatal = "none"
    /\ PHOTO_PREVIEW_POPEN = "running"
    /\ PHOTO_PREVIEW_POPEN' = "exited"
    /\ event' = "proc_exit"
    /\ calls' = <<>>
    /\ UNCHANGED <<CURRENT_STATE, TOTAL_TIME, STATE_START, CURRENT_PHOTO_PATH,
                   VIDEO_FEED_POPEN, feed_orphans, preview_orphans, is_on, pin,
                   fatal, upc, bpc>>
    /\ UNCHANGED wall

(* ---------------------------- specification ---------------------------- *)

\* main(): update(dt) is called again and again; the GPIO library calls
\* button_event between two updates.
Tick == \E dt \in DtSet : update(dt)

Next ==
    \/ button_event
    \/ Tick
    \/ FeedExits
    \/ PreviewExits

Spec == Init /\ [][Next]_vars

\* The same behaviours, with main()'s loop never starving: wall-clock time
\* passes between two calls of update (src 264-268), so a tick with dt > 0
\* always comes.
TickPositive == \E dt \in DtSet \ {0} : update(dt)

LiveSpec == Init /\ [][Next]_vars /\ WF_vars(TickPositive)

(* ---------------------- update and button_event, by line ---------------- *)

\* OPi.GPIO calls button_event on its own event thread (src 201), while the
\* main thread is anywhere in update(): below, each thread advances one
\* statement (one read or write of a global, one external call) at a time, and
\* the two interleave freely.  The position U<n> / B<n> is line n of the
\* source.

\* TOTAL_TIME += dt (src 211).  A dt > 0 here is seconds long, and
\* button_event, which takes no such time, is then not in progress: the two
\* threads interleave within one call of update().
U211(dt) ==
    /\ UNCHANGED wall
    /\ fatal = "none"
    /\ upc = "idle"
    /\ event' = "tick"
    /\ TOTAL_TIME + dt <= ConcMaxTime
    /\ dt > 0 => bpc = "idle"
    /\ TOTAL_TIME' = TOTAL_TIME + dt
    /\ upc' = "213"
    /\ calls' = <<>>
    /\ UNCHANGED <<CURRENT_STATE, STATE_START, CURRENT_PHOTO_PATH, VIDEO_FEED_POPEN,
                   PHOTO_PREVIEW_POPEN, feed_orphans, preview_orphans, is_on, pin, fatal,
                   bpc>>

\* if CURRENT_STATE == States.COUNTDOWN (src 213).
U213 ==
    /\ UNCHANGED wall
    /\ fatal = "none"
    /\ upc = "213"
    /\ event' = "tick"
    /\ upc' = IF CURRENT_STATE = "COUNTDOWN" THEN "214" ELSE "224"
    /\ calls' = <<>>
    /\ UNCHANGED <<CURRENT_STATE, TOTAL_TIME, STATE_START, CURRENT_PHOTO_PATH,
                   VIDEO_FEED_POPEN, PHOTO_PREVIEW_POPEN, feed_orphans, preview_orphans,
                   is_on, pin, fatal, bpc>>

\* if TOTAL_TIME - STATE_START > COUNTDOWN_DURATION (src 214).
U214 ==
    /\ UNCHANGED wall
    /\ fatal = "none"
    /\ upc = "214"
    /\ event' = "tick"
    /\ upc' = IF countdown_over(TOTAL_TIME, STATE_START) THEN "215" ELSE "242"
    /\ calls' = <<>>
    /\ UNCHANGED <<CURRENT_STATE, TOTAL_TIME, STATE_START, CURRENT_PHOTO_PATH,
                   VIDEO_FEED_POPEN, PHOTO_PREVIEW_POPEN, feed_orphans, preview_orphans,
                   is_on, pin, fatal, bpc>>

\* kill_video_feed() (src 215).
U215 ==
    /\ UNCHANGED wall
    /\ fatal = "none"
    /\ upc = "215"
    /\ event' = "tick"
    /\ VIDEO_FEED_POPEN # "None"
    /\ VIDEO_FEED_POPEN' = terminate_wait(VIDEO_FEED_POPEN)
    /\ calls' = <<Call("kill_video_feed", "")>>
    /\ upc' = "216"
    /\ UNCHANGED <<CURRENT_STATE, TOTAL_TIME, STATE_START, CURRENT_PHOTO_PATH,
                   PHOTO_PREVIEW_POPEN, feed_orphans, preview_orphans, is_on, pin, fatal,
                   bpc>>

\* CURRENT_PHOTO_PATH = take_photo(), gphoto2 succeeds (src 216).
U216(path) ==
    /\ UNCHANGED wall
    /\ fatal = "none"
    /\ upc = "216"
    /\ event' = "tick"
    /\ CURRENT_PHOTO_PATH' = path
    /\ calls' = <<Call("take_photo", path)>>
    /\ upc' = "217"
    /\ UNCHANGED <<CURRENT_STATE, TOTAL_TIME, STATE_START, VIDEO_FEED_POPEN,
                   PHOTO_PREVIEW_POPEN, feed_orphans, preview_orphans, is_on, pin, fatal,
                   bpc>>

\* take_photo(), gphoto2 exits nonzero: check_call raises (src 144, 216).
U216Fail ==
    /\ UNCHANGED wall
    /\ fatal = "none"
    /\ upc = "216"
    /\ event' = "tick"
    /\ fatal' = "CalledProcessError"
    /\ calls' = <<Call("take_photo", "")>>
    /\ upc' = "216"
    /\ UNCHANGED <<CURRENT_STATE, TOTAL_TIME, STATE_START, CURRENT_PHOTO_PATH,
                   VIDEO_FEED_POPEN, PHOTO_PREVIEW_POPEN, feed_orphans, preview_orphans,
                   is_on, pin, bpc>>

\* start_photo_preview(CURRENT_PHOTO_PATH) (src 217).
U217 ==
    /\ UNCHANGED wall
    /\ fatal = "none"
    /\ upc = "217"
    /\ event' = "tick"
    /\ PHOTO_PREVIEW_POPEN' = Popen
    /\ preview_orphans' = preview_orphans + Orphaned(PHOTO_PREVIEW_POPEN)
    /\ calls' = <<Call("start_photo_preview", CURRENT_PHOTO_PATH)>>
    /\ upc' = "218"
    /\ UNCHANGED <<CURRENT_STATE, TOTAL_TIME, STATE_START, CURRENT_PHOTO_PATH,
                   VIDEO_FEED_POPEN, feed_orphans, is_on, pin, fatal, bpc>>

\* STATE_START = TOTAL_TIME (src 218).
U218 ==
    /\ UNCHANGED wall
    /\ fatal = "none"
    /\ upc = "218"
    /\ event' = "tick"
    /\ STATE_START' = TOTAL_TIME
    /\ upc' = "219"
    /\ calls' = <<>>
    /\ UNCHANGED <<CURRENT_STATE, TOTAL_TIME, CURRENT_PHOTO_PATH, VIDEO_FEED_POPEN,
                   PHOTO_PREVIEW_POPEN, feed_orphans, preview_orphans, is_on, pin, fatal,
                   bpc>>

\* CURRENT_STATE = States.PRINT_CHECK (src 219).
U219 ==
    /\ UNCHANGED wall
    /\ fatal = "none"
    /\ upc = "219"
    /\ event' = "tick"
    /\ CURRENT_STATE' = "PRINT_CHECK"
    /\ upc' = "242"
    /\ calls' = <<>>
    /\ UNCHANGED <<TOTAL_TIME, STATE_START, CURRENT_PHOTO_PATH, VIDEO_FEED_POPEN,
                   PHOTO_PREVIEW_POPEN, feed_orphans, preview_orphans, is_on, pin, fatal,
                   bpc>>

\* elif CURRENT_STATE == States.PRINT_CHECK (src 224).
U224 ==
    /\ UNCHANGED wall
    /\ fatal = "none"
    /\ upc = "224"
    /\ event' = "tick"
    /\ upc' = IF CURRENT_STATE = "PRINT_CHECK" THEN "225" ELSE "232"
    /\ calls' = <<>>
    /\ UNCHANGED <<CURRENT_STATE, TOTAL_TIME, STATE_START, CURRENT_PHOTO_PATH,
                   VIDEO_FEED_POPEN, PHOTO_PREVIEW_POPEN, feed_orphans, preview_orphans,
                   is_on, pin, fatal, bpc>>

\* if TOTAL_TIME - STATE_START > PRINT_CHECK_DURATION (src 225).
U225 ==
    /\ UNCHANGED wall
    /\ fatal = "none"
    /\ upc = "225"
    /\ event' = "tick"
    /\ upc' = IF print_check_over(TOTAL_TIME, STATE_START) THEN "226" ELSE "242"
    /\ calls' = <<>>
    /\ UNCHANGED <<CURRENT_STATE, TOTAL_TIME, STATE_START, CURRENT_PHOTO_PATH,
                   VIDEO_FEED_POPEN, PHOTO_PREVIEW_POPEN, feed_orphans, preview_orphans,
                   is_on, pin, fatal, bpc>>

\* kill_photo_preview() (src 226).
U226 ==
    /\ UNCHANGED wall
    /\ fatal = "none"
    /\ upc = "226"
    /\ event' = "tick"
    /\ PHOTO_PREVIEW_POPEN # "None"
    /\ PHOTO_PREVIEW_POPEN' = terminate_wait(PHOTO_PREVIEW_POPEN)
    /\ calls' = <<Call("kill_photo_preview", "")>>
    /\ upc' = "227"
    /\ UNCHANGED <<CURRENT_STATE, TOTAL_TIME, STATE_START, CURRENT_PHOTO_PATH,
                   VIDEO_FEED_POPEN, feed_orphans, preview_orphans, is_on, pin, fatal,
                   bpc>>

\* print_photo(CURRENT_PHOTO_PATH) (src 227).
U227 ==
    /\ UNCHANGED wall
    /\ fatal = "none"
    /\ upc = "227"
    /\ event' = "tick"
    /\ calls' = <<Call("print_photo", CURRENT_PHOTO_PATH)>>
    /\ upc' = "228"
    /\ UNCHANGED <<CURRENT_STATE, TOTAL_TIME, STATE_START, CURRENT_PHOTO_PATH,
                   VIDEO_FEED_POPEN, PHOTO_PREVIEW_POPEN, feed_orphans, preview_orphans,
                   is_on, pin, fatal, bpc>>

\* start_video_feed() (src 228).
U228 ==
    /\ UNCHANGED wall
    /\ fatal = "none"
    /\ upc = "228"
    /\ event' = "tick"
    /\ VIDEO_FEED_POPEN' = Popen
    /\ feed_orphans' = feed_orphans + Orphaned(VIDEO_FEED_POPEN)
    /\ calls' = <<Call("start_video_feed", "")>>
    /\ upc' = "229"
    /\ UNCHANGED <<CURRENT_STATE, TOTAL_TIME, STATE_START, CURRENT_PHOTO_PATH,
                   PHOTO_PREVIEW_POPEN, preview_orphans, is_on, pin, fatal, bpc>>

\* STATE_START = TOTAL_TIME (src 229).
U229 ==
    /\ UNCHANGED wall
    /\ fatal = "none"
    /\ upc = "229"
    /\ event' = "tick"
    /\ STATE_START' = TOTAL_TIME
    /\ upc' = "230"
    /\ calls' = <<>>
    /\ UNCHANGED <<CURRENT_STATE, TOTAL_TIME, CURRENT_PHOTO_PATH, VIDEO_FEED_POPEN,
                   PHOTO_PREVIEW_POPEN, feed_orphans, preview_orphans, is_on, pin, fatal,
                   bpc>>

\* CURRENT_STATE = States.IDLE (src 230).
U230 ==
    /\ UNCHANGED wall
    /\ fatal = "none"
    /\ upc = "230"
    /\ event' = "tick"
    /\ CURRENT_STATE' = "IDLE"
    /\ upc' = "242"
    /\ calls' = <<>>
    /\ UNCHANGED <<TOTAL_TIME, STATE_START, CURRENT_PHOTO_PATH, VIDEO_FEED_POPEN,
                   PHOTO_PREVIEW_POPEN, feed_orphans, preview_orphans, is_on, pin, fatal,
                   bpc>>

\* elif CURRENT_STATE == States.IDLE (src 232).
U232 ==
    /\ UNCHANGED wall
    /\ fatal = "none"
    /\ upc = "232"
    /\ event' = "tick"
    /\ upc' = IF CURRENT_STATE = "IDLE" THEN "233" ELSE "242"
    /\ calls' = <<>>
    /\ UNCHANGED <<CURRENT_STATE, TOTAL_TIME, STATE_START, CURRENT_PHOTO_PATH,
                   VIDEO_FEED_POPEN, PHOTO_PREVIEW_POPEN, feed_orphans, preview_orphans,
                   is_on, pin, fatal, bpc>>

\* if TOTAL_TIME - STATE_START > TIME_BEFORE_SLEEP (src 233).
U233 ==
    /\ UNCHANGED wall
    /\ fatal = "none"
    /\ upc = "233"
    /\ event' = "tick"
    /\ upc' = IF idle_over(TOTAL_TIME, STATE_START) THEN "234" ELSE "238"
    /\ calls' = <<>>
    /\ UNCHANGED <<CURRENT_STATE, TOTAL_TIME, STATE_START, CURRENT_PHOTO_PATH,
                   VIDEO_FEED_POPEN, PHOTO_PREVIEW_POPEN, feed_orphans, preview_orphans,
                   is_on, pin, fatal, bpc>>

\* kill_video_feed() (src 234).
U234 ==
    /\ UNCHANGED wall
    /\ fatal = "none"
    /\ upc = "234"
    /\ event' = "tick"
    /\ VIDEO_FEED_POPEN # "None"
    /\ VIDEO_FEED_POPEN' = terminate_wait(VIDEO_FEED_POPEN)
    /\ calls' = <<Call("kill_video_feed", "")>>
    /\ upc' = "236"
    /\ UNCHANGED <<CURRENT_STATE, TOTAL_TIME, STATE_START, CURRENT_PHOTO_PATH,
                   PHOTO_PREVIEW_POPEN, feed_orphans, preview_orphans, is_on, pin, fatal,
                   bpc>>

\* STATE_START = TOTAL_TIME (src 236).
U236 ==
    /\ UNCHANGED wall
    /\ fatal = "none"
    /\ upc = "236"
    /\ event' = "tick"
    /\ STATE_START' = TOTAL_TIME
    /\ upc' = "237"
    /\ calls' = <<>>
    /\ UNCHANGED <<CURRENT_STATE, TOTAL_TIME, CURRENT_PHOTO_PATH, VIDEO_FEED_POPEN,
                   PHOTO_PREVIEW_POPEN, feed_orphans, preview_orphans, is_on, pin, fatal,
                   bpc>>

\* CURRENT_STATE = States.SLEEP (src 237).
U237 ==
    /\ UNCHANGED wall
    /\ fatal = "none"
    /\ upc = "237"
    /\ event' = "tick"
    /\ CURRENT_STATE' = "SLEEP"
    /\ upc' = "242"
    /\ calls' = <<>>
    /\ UNCHANGED <<TOTAL_TIME, STATE_START, CURRENT_PHOTO_PATH, VIDEO_FEED_POPEN,
                   PHOTO_PREVIEW_POPEN, feed_orphans, preview_orphans, is_on, pin, fatal,
                   bpc>>

\* elif VIDEO_FEED_POPEN.poll() is not None: raise RuntimeError (src 238-239).
U238 ==
    /\ UNCHANGED wall
    /\ fatal = "none"
    /\ upc = "238"
    /\ event' = "tick"
    /\ VIDEO_FEED_POPEN # "None"
    /\ fatal' = IF poll_not_none(VIDEO_FEED_POPEN) THEN "RuntimeError" ELSE "none"
    /\ upc' = IF poll_not_none(VIDEO_FEED_POPEN) THEN "238" ELSE "242"
    /\ calls' = <<>>
    /\ UNCHANGED <<CURRENT_STATE, TOTAL_TIME, STATE_START, CURRENT_PHOTO_PATH,
                   VIDEO_FEED_POPEN, PHOTO_PREVIEW_POPEN, feed_orphans, preview_orphans,
                   is_on, pin, bpc>>

\* The button light (src 242-252).  The tests of lines 242 and 248 read
\* CURRENT_STATE once each; only this thread writes SLEEP, so the two reads
\* choose the branch one read would.
U242 ==
    /\ UNCHANGED wall
    /\ fatal = "none"
    /\ upc = "242"
    /\ event' = "tick"
    /\ led_update(CURRENT_STATE, TOTAL_TIME, <<>>)
    /\ upc' = "idle"
    /\ UNCHANGED <<CURRENT_STATE, TOTAL_TIME, STATE_START, CURRENT_PHOTO_PATH,
                   VIDEO_FEED_POPEN, PHOTO_PREVIEW_POPEN, feed_orphans, preview_orphans,
                   fatal, bpc>>

\* button_event is called; if CURRENT_STATE == States.SLEEP (src 157-168).
B168 ==
    /\ UNCHANGED wall
    /\ fatal = "none"
    /\ bpc = "idle"
    /\ event' = "press"
    /\ bpc' = IF CURRENT_STATE = "SLEEP" THEN "170" ELSE "174"
    /\ calls' = <<>>
    /\ UNCHANGED <<CURRENT_STATE, TOTAL_TIME, STATE_START, CURRENT_PHOTO_PATH,
                   VIDEO_FEED_POPEN, PHOTO_PREVIEW_POPEN, feed_orphans, preview_orphans,
                   is_on, pin, fatal, upc>>

\* start_video_feed() (src 170).
B170 ==
    /\ UNCHANGED wall
    /\ fatal = "none"
    /\ bpc = "170"
    /\ event' = "press"
    /\ VIDEO_FEED_POPEN' = Popen
    /\ feed_orphans' = feed_orphans + Orphaned(VIDEO_FEED_POPEN)
    /\ calls' = <<Call("start_video_feed", "")>>
    /\ bpc' = "171"
    /\ UNCHANGED <<CURRENT_STATE, TOTAL_TIME, STATE_START, CURRENT_PHOTO_PATH,
                   PHOTO_PREVIEW_POPEN, preview_orphans, is_on, pin, fatal, upc>>

\* STATE_START = TOTAL_TIME (src 171).
B171 ==
    /\ UNCHANGED wall
    /\ fatal = "none"
    /\ bpc = "171"
    /\ event' = "press"
    /\ STATE_START' = TOTAL_TIME
    /\ bpc' = "172"
    /\ calls' = <<>>
    /\ UNCHANGED <<CURRENT_STATE, TOTAL_TIME, CURRENT_PHOTO_PATH, VIDEO_FEED_POPEN,
                   PHOTO_PREVIEW_POPEN, feed_orphans, preview_orphans, is_on, pin, fatal,
                   upc>>

\* CURRENT_STATE = States.IDLE (src 172).
B172 ==
    /\ UNCHANGED wall
    /\ fatal = "none"
    /\ bpc = "172"
    /\ event' = "press"
    /\ CURRENT_STATE' = "IDLE"
    /\ bpc' = "idle"
    /\ calls' = <<>>
    /\ UNCHANGED <<TOTAL_TIME, STATE_START, CURRENT_PHOTO_PATH, VIDEO_FEED_POPEN,
                   PHOTO_PREVIEW_POPEN, feed_orphans, preview_orphans, is_on, pin, fatal,
                   upc>>

\* elif CURRENT_STATE == States.IDLE (src 174).
B174 ==
    /\ UNCHANGED wall
    /\ fatal = "none"
    /\ bpc = "174"
    /\ event' = "press"
    /\ bpc' = IF CURRENT_STATE = "IDLE" THEN "175" ELSE "178"
    /\ calls' = <<>>
    /\ UNCHANGED <<CURRENT_STATE, TOTAL_TIME, STATE_START, CURRENT_PHOTO_PATH,
                   VIDEO_FEED_POPEN, PHOTO_PREVIEW_POPEN, feed_orphans, preview_orphans,
                   is_on, pin, fatal, upc>>

\* STATE_START = TOTAL_TIME (src 175).
B175 ==
    /\ UNCHANGED wall
    /\ fatal = "none"
    /\ bpc = "175"
    /\ event' = "press"
    /\ STATE_START' = TOTAL_TIME
    /\ bpc' = "176"
    /\ calls' = <<>>
    /\ UNCHANGED <<CURRENT_STATE, TOTAL_TIME, CURRENT_PHOTO_PATH, VIDEO_FEED_POPEN,
                   PHOTO_PREVIEW_POPEN, feed_orphans, preview_orphans, is_on, pin, fatal,
                   upc>>

\* CURRENT_STATE = States.COUNTDOWN (src 176).
B176 ==
    /\ UNCHANGED wall
    /\ fatal = "none"
    /\ bpc = "176"
    /\ event' = "press"
    /\ CURRENT_STATE' = "COUNTDOWN"
    /\ bpc' = "idle"
    /\ calls' = <<>>
    /\ UNCHANGED <<TOTAL_TIME, STATE_START, CURRENT_PHOTO_PATH, VIDEO_FEED_POPEN,
                   PHOTO_PREVIEW_POPEN, feed_orphans, preview_orphans, is_on, pin, fatal,
                   upc>>

\* elif CURRENT_STATE == States.PRINT_CHECK (src 178).
B178 ==
    /\ UNCHANGED wall
    /\ fatal = "none"
    /\ bpc = "178"
    /\ event' = "press"
    /\ bpc' = IF CURRENT_STATE = "PRINT_CHECK" THEN "179" ELSE "idle"
    /\ calls' = <<>>
    /\ UNCHANGED <<CURRENT_STATE, TOTAL_TIME, STATE_START, CURRENT_PHOTO_PATH,
                   VIDEO_FEED_POPEN, PHOTO_PREVIEW_POPEN, feed_orphans, preview_orphans,
                   is_on, pin, fatal, upc>>

\* kill_photo_preview() (src 179).
B179 ==
    /\ UNCHANGED wall
    /\ fatal = "none"
    /\ bpc = "179"
    /\ event' = "press"
    /\ PHOTO_PREVIEW_POPEN # "None"
    /\ PHOTO_PREVIEW_POPEN' = terminate_wait(PHOTO_PREVIEW_POPEN)
    /\ calls' = <<Call("kill_photo_preview", "")>>
    /\ bpc' = "180"
    /\ UNCHANGED <<CURRENT_STATE, TOTAL_TIME, STATE_START, CURRENT_PHOTO_PATH,
                   VIDEO_FEED_POPEN, feed_orphans, preview_orphans, is_on, pin, fatal,
                   upc>>

\* start_video_feed() (src 180).
B180 ==
    /\ UNCHANGED wall
    /\ fatal = "none"
    /\ bpc = "180"
    /\ event' = "press"
    /\ VIDEO_FEED_POPEN' = Popen
    /\ feed_orphans' = feed_orphans + Orphaned(VIDEO_FEED_POPEN)
    /\ calls' = <<Call("start_video_feed", "")>>
    /\ bpc' = "181"
    /\ UNCHANGED <<CURRENT_STATE, TOTAL_TIME, STATE_START, CURRENT_PHOTO_PATH,
                   PHOTO_PREVIEW_POPEN, preview_orphans, is_on, pin, fatal, upc>>

\* CURRENT_STATE = States.IDLE (src 181).
B181 ==
    /\ UNCHANGED wall
    /\ fatal = "none"
    /\ bpc = "181"
    /\ event' = "press"
    /\ CURRENT_STATE' = "IDLE"
    /\ bpc' = "182"
    /\ calls' = <<>>
    /\ UNCHANGED <<TOTAL_TIME, STATE_START, CURRENT_PHOTO_PATH, VIDEO_FEED_POPEN,
                   PHOTO_PREVIEW_POPEN, feed_orphans, preview_orphans, is_on, pin, fatal,
                   upc>>

\* STATE_START = TOTAL_TIME (src 182).
B182 ==
    /\ UNCHANGED wall
    /\ fatal = "none"
    /\ bpc = "182"
    /\ event' = "press"
    /\ STATE_START' = TOTAL_TIME
    /\ bpc' = "idle"
    /\ calls' = <<>>
    /\ UNCHANGED <<CURRENT_STATE, TOTAL_TIME, CURRENT_PHOTO_PATH, VIDEO_FEED_POPEN,
                   PHOTO_PREVIEW_POPEN, feed_orphans, preview_orphans, is_on, pin, fatal,
                   upc>>

UpdateStep ==
    \/ \E dt \in ConcDtSet : U211(dt)
    \/ \E path \in PhotoPaths : U216(path)
    \/ U213
    \/ U214
    \/ U215
    \/ U216Fail
    \/ U217
    \/ U218
    \/ U219
    \/ U224
    \/ U225
    \/ U226
    \/ U227
    \/ U228
    \/ U229
    \/ U230
    \/ U232
    \/ U233
    \/ U234
    \/ U236
    \/ U237
    \/ U238
    \/ U242

ButtonStep ==
    \/ B168
    \/ B170
    \/ B171
    \/ B172
    \/ B174
    \/ B175
    \/ B176
    \/ B178
    \/ B179
    \/ B180
    \/ B181
    \/ B182

ConcNext ==
    \/ UpdateStep
    \/ ButtonStep
    \/ FeedExits
    \/ PreviewExits

ConcSpec == Init /\ [][ConcNext]_vars

(* ------------------------- main(), by the wall clock -------------------- *)

\* The longest time, in 1/Unit s, that kill_video_feed and take_photo block
\* update() for (src 108-109, 144).
MaxBlock == 12
BlockSet == {0, MaxBlock}

\* time.sleep(0.05) and the rest of one turn of the loop (src 264-268).
PauseSet == {1, 3}

\* One turn of main()'s loop (src 264-268): new_time = time.time() is now,
\* update gets dt = new_time - last_time and adds it to TOTAL_TIME (src 211),
\* last_time becomes new_time, and the next turn begins at the time after.
\* shown is the time the feh now on display was started at, 0 with none.
Loop(dt, shown, after) ==
    /\ fatal = "none"
    /\ event' = "tick"
    /\ UNCHANGED <<upc, bpc>>
    /\ TOTAL_TIME' = TOTAL_TIME + dt
    /\ last_time' = now
    /\ shown_at' = shown
    /\ now' = after

\* The loop of main(): the branches of update(now - last_time).  The calls
\* of the COUNTDOWN branch block for b before feh is started (src 215-217);
\* p is the pause before the next turn.
main ==
    \/ \E path \in PhotoPaths, b \in BlockSet, p \in PauseSet :
           /\ Loop(now - last_time, now + b, now + b + p)
           /\ UpdateCountdownOver(TOTAL_TIME + now - last_time, path)
    \/ \E b \in BlockSet :
           /\ Loop(now - last_time, 0, now + b)
           /\ UpdateCountdownFail(TOTAL_TIME + now - last_time)
    \/ \E p \in PauseSet :
           /\ Loop(now - last_time, 0, now + p)
           /\ UpdateCountdownWait(TOTAL_TIME + now - last_time)
    \/ \E p \in PauseSet :
           /\ Loop(now - last_time, 0, now + p)
           /\ UpdatePrintCheckOver(TOTAL_TIME + now - last_time)
    \/ \E p \in PauseSet :
           /\ Loop(now - last_time, shown_at, now + p)
           /\ UpdatePrintCheckWait(TOTAL_TIME + now - last_time)
    \/ \E p \in PauseSet :
           /\ Loop(now - last_time, 0, now + p)
           /\ UpdateIdleOver(TOTAL_TIME + now - last_time)
    \/ /\ Loop(now - last_time, 0, now)
       /\ UpdateIdleFeedDied(TOTAL_TIME + now - last_time)
    \/ \E p \in PauseSet :
           /\ Loop(now - last_time, 0, now + p)
           /\ UpdateIdleWait(TOTAL_TIME + now - last_time)
    \/ \E p \in PauseSet :
           /\ Loop(now - last_time, 0, now + p)
           /\ UpdateSleep(TOTAL_TIME + now - last_time)

MainNext ==
    \/ button_event
    \/ main
    \/ FeedExits
    \/ PreviewExits

MainSpec == Init /\ [][MainNext]_vars

(* ------------------------------ properties ----------------------------- *)

FeedActive == VIDEO_FEED_POPEN = "running" \/ feed_orphans > 0
PreviewActive == PHOTO_PREVIEW_POPEN = "running" \/ preview_orphans > 0

Ops(cs) == {cs[i].op : i \in 1..Len(cs)}

\* In cs, every call of b comes after a call of a.
Precedes(a, b, cs) ==
    \A j \in 1..Len(cs) : cs[j].op = b => \E i \in 1..(j - 1) : cs[i].op = a

\* Replaying the calls cs from a moment where the feed is active iff f and
\* the preview iff p, the two are active together at no moment.
RECURSIVE NeverBoth(_, _, _)
NeverBoth(cs, f, p) ==
    /\ ~(f /\ p)
    /\ cs # <<>> =>
         NeverBoth(Tail(cs),
                   IF Head(cs).op = "start_video_feed" THEN TRUE
                   ELSE IF Head(cs).op = "kill_video_feed" THEN FALSE ELSE f,
                   IF Head(cs).op = "start_photo_preview" THEN TRUE
                   ELSE IF Head(cs).op = "kill_photo_preview" THEN FALSE ELSE p)

Elapsed == TOTAL_TIME - STATE_START

\* C1: with press and tick events applied one after another from the initial
\* SLEEP state, the video feed and the photo preview are never active
\* together, neither between two events nor between two calls of one event:
\* COUNTDOWN -> PRINT_CHECK stops the feed before it starts the preview, and
\* PRINT_CHECK -> IDLE (by press or by timeout) stops the preview before it
\* starts the feed.
C1_FeedPreviewExclusive ==
    /\ [](~(FeedActive /\ PreviewActive))
    /\ [][/\ NeverBoth(calls', FeedActive, PreviewActive)
          /\ (CURRENT_STATE = "COUNTDOWN" /\ CURRENT_STATE' = "PRINT_CHECK") =>
                 /\ "start_photo_preview" \in Ops(calls')
                 /\ Precedes("kill_video_feed", "start_photo_preview", calls')
          /\ (CURRENT_STATE = "PRINT_CHECK" /\ CURRENT_STATE' = "IDLE") =>
                 /\ "start_video_feed" \in Ops(calls')
                 /\ Precedes("kill_photo_preview", "start_video_feed", calls')]_vars

\* C1 witness: the preview runs, started by a tick that first stopped a feed.
C1_Witness ==
    /\ CURRENT_STATE = "PRINT_CHECK"
    /\ PHOTO_PREVIEW_POPEN = "running"
    /\ VIDEO_FEED_POPEN = "exited"
    /\ "start_photo_preview" \in Ops(calls)

Edges ==
    { <<"SLEEP", "press", "IDLE">>,
      <<"IDLE", "press", "COUNTDOWN">>,
      <<"IDLE", "tick", "SLEEP">>,
      <<"COUNTDOWN", "tick", "PRINT_CHECK">>,
      <<"PRINT_CHECK", "press", "IDLE">>,
      <<"PRINT_CHECK", "tick", "IDLE">> }

\* C2: the controller starts in SLEEP, CURRENT_STATE is always one of the four
\* states, and it changes only along the edges of the transition table, each
\* edge by the event the table gives it.
C2_StateEdges ==
    /\ [](CURRENT_STATE \in States /\ (event = "none" => CURRENT_STATE = "SLEEP"))
    /\ [][CURRENT_STATE' # CURRENT_STATE =>
            <<CURRENT_STATE, event', CURRENT_STATE'>> \in Edges]_vars

\* C2 witness: back in SLEEP after a photo was taken (every edge but the
\* cancelling press lies on the way); C2_WitnessCancel is the cancelling press.
C2_Witness ==
    /\ CURRENT_STATE = "SLEEP"
    /\ CURRENT_PHOTO_PATH # "None"
    /\ event = "tick"

\* C3: a tick in IDLE moves to SLEEP, stopping the feed, iff after adding dt
\* TOTAL_TIME - STATE_START > TIME_BEFORE_SLEEP; otherwise the state stays IDLE.
C3_IdleToSleep ==
    [][(CURRENT_STATE = "IDLE" /\ event' = "tick") =>
          /\ CURRENT_STATE' \in {"IDLE", "SLEEP"}
          /\ CURRENT_STATE' = "SLEEP" <=>
                 TOTAL_TIME' - STATE_START > TIME_BEFORE_SLEEP * Unit
          /\ CURRENT_STATE' = "SLEEP" =>
                 /\ VIDEO_FEED_POPEN' = "exited"
                 /\ "kill_video_feed" \in Ops(calls')
          /\ CURRENT_STATE' = "IDLE" => STATE_START' = STATE_START]_vars

\* C3 witness: still IDLE after a tick at exactly TIME_BEFORE_SLEEP.
C3_Witness ==
    /\ CURRENT_STATE = "IDLE"
    /\ event = "tick"
    /\ Elapsed = TIME_BEFORE_SLEEP * Unit

\* C4: COUNTDOWN is left only for PRINT_CHECK, only by a tick, and by every
\* tick at which TOTAL_TIME - STATE_START > COUNTDOWN_DURATION and the capture
\* succeeds; presses change nothing of that; and with ticks of positive dt
\* arriving, every COUNTDOWN ends in PRINT_CHECK unless the capture fails.
C4_CountdownToPrintCheck ==
    /\ [][CURRENT_STATE = "COUNTDOWN" =>
            /\ CURRENT_STATE' \in {"COUNTDOWN", "PRINT_CHECK"}
            /\ CURRENT_STATE' = "PRINT_CHECK" <=>
                   /\ event' = "tick"
                   /\ TOTAL_TIME' - STATE_START > COUNTDOWN_DURATION * Unit
                   /\ fatal' = "none"
            /\ fatal' # "none" =>
                   /\ event' = "tick"
                   /\ TOTAL_TIME' - STATE_START > COUNTDOWN_DURATION * Unit
            /\ CURRENT_STATE' = "COUNTDOWN" => STATE_START' = STATE_START]_vars
    /\ (CURRENT_STATE = "COUNTDOWN") ~> (CURRENT_STATE = "PRINT_CHECK" \/ fatal # "none")

\* C4 witness: PRINT_CHECK just entered from a COUNTDOWN.
C4_Witness ==
    /\ CURRENT_STATE = "PRINT_CHECK"
    /\ event = "tick"
    /\ Elapsed = 0
    /\ "take_photo" \in Ops(calls)

\* C5: PRINT_CHECK is left for IDLE by a press at any elapsed time, or by a
\* tick with TOTAL_TIME - STATE_START > PRINT_CHECK_DURATION, and in no other
\* way; on both paths the preview is stopped before the feed is started.
C5_PrintCheckToIdle ==
    [][CURRENT_STATE = "PRINT_CHECK" =>
          /\ CURRENT_STATE' \in {"PRINT_CHECK", "IDLE"}
          /\ event' = "press" => CURRENT_STATE' = "IDLE"
          /\ event' = "tick" =>
                 (CURRENT_STATE' = "IDLE" <=>
                      TOTAL_TIME' - STATE_START > PRINT_CHECK_DURATION * Unit)
          /\ event' = "proc_exit" => CURRENT_STATE' = "PRINT_CHECK"
          /\ CURRENT_STATE' = "IDLE" =>
                 /\ \E i, j \in 1..Len(calls') :
                        /\ i < j
                        /\ calls'[i].op = "kill_photo_preview"
                        /\ calls'[j].op = "start_video_feed"
                 /\ Precedes("kill_photo_preview", "start_video_feed", calls')
                 /\ ~("start_video_feed" \in Ops(calls') /\
                      Precedes("start_video_feed", "kill_photo_preview", calls'))
                 /\ PHOTO_PREVIEW_POPEN' = "exited"
                 /\ VIDEO_FEED_POPEN' = "running"]_vars

\* C5 witness: IDLE by a press that came before the PRINT_CHECK timeout.
C5_Witness ==
    /\ CURRENT_STATE = "IDLE"
    /\ event = "press"
    /\ "kill_photo_preview" \in Ops(calls)
    /\ CURRENT_PHOTO_PATH # "None"

PrintCalls(cs) == {i \in 1..Len(cs) : cs[i].op = "print_photo"}

\* C6: print_photo is called exactly once by the tick that ends a PRINT_CHECK
\* by timeout, with the path the COUNTDOWN -> PRINT_CHECK tick stored, and by
\* no other step: not by the press that ends a PRINT_CHECK, not in any other
\* state.
C6_PrintOncePerTimeout ==
    [][/\ (CURRENT_STATE = "PRINT_CHECK" /\ CURRENT_STATE' = "IDLE" /\ event' = "tick") =>
              /\ Cardinality(PrintCalls(calls')) = 1
              /\ \A i \in PrintCalls(calls') : calls'[i].arg = CURRENT_PHOTO_PATH
              /\ CURRENT_PHOTO_PATH \in PhotoPaths
       /\ ~(CURRENT_STATE = "PRINT_CHECK" /\ CURRENT_STATE' = "IDLE" /\ event' = "tick") =>
              PrintCalls(calls') = {}
       /\ (CURRENT_STATE # "PRINT_CHECK" /\ CURRENT_STATE' = "PRINT_CHECK") =>
              \E i \in 1..Len(calls') :
                  /\ calls'[i].op = "take_photo"
                  /\ calls'[i].arg = CURRENT_PHOTO_PATH'
       /\ (CURRENT_STATE = "PRINT_CHECK" /\ CURRENT_STATE' = "PRINT_CHECK") =>
              CURRENT_PHOTO_PATH' = CURRENT_PHOTO_PATH]_vars

\* C6 witness: IDLE by timeout, the photo printed.
C6_Witness ==
    /\ CURRENT_STATE = "IDLE"
    /\ event = "tick"
    /\ PrintCalls(calls) # {}

\* C7: a press in COUNTDOWN changes nothing: not the state, the timers, the
\* photo path, the feed, the preview or the LED.
C7_PressInCountdownNoOp ==
    [][(CURRENT_STATE = "COUNTDOWN" /\ event' = "press") =>
          /\ UNCHANGED <<CURRENT_STATE, STATE_START, TOTAL_TIME, CURRENT_PHOTO_PATH,
                         VIDEO_FEED_POPEN, PHOTO_PREVIEW_POPEN, feed_orphans,
                         preview_orphans, is_on, pin>>
          /\ calls' = <<>>]_vars

\* C7 witness: a press was the last event and the COUNTDOWN began before it.
C7_Witness ==
    /\ CURRENT_STATE = "COUNTDOWN"
    /\ event = "press"
    /\ Elapsed > 0

\* C8 as stated: every tick in IDLE with the feed process exited is fatal and
\* changes no state, also when the IDLE timeout has expired.
C8_Original ==
    [][(CURRENT_STATE = "IDLE" /\ VIDEO_FEED_POPEN = "exited" /\ event' = "tick") =>
          /\ fatal' # "none"
          /\ CURRENT_STATE' = "IDLE"]_vars

\* C8 amended: a tick in IDLE with the feed process exited is fatal
\* (RuntimeError, nothing else changed) iff the IDLE timeout has not expired
\* at that tick; when it has, the tick moves to SLEEP without an error.
C8_FeedDiedFatal ==
    [][(CURRENT_STATE = "IDLE" /\ VIDEO_FEED_POPEN = "exited" /\ event' = "tick") =>
          IF TOTAL_TIME' - STATE_START > TIME_BEFORE_SLEEP * Unit
          THEN fatal' = "none" /\ CURRENT_STATE' = "SLEEP"
          ELSE /\ fatal' = "RuntimeError"
               /\ UNCHANGED <<CURRENT_STATE, STATE_START, CURRENT_PHOTO_PATH,
                              VIDEO_FEED_POPEN, PHOTO_PREVIEW_POPEN, is_on, pin>>]_vars

\* C8 witness: the loop has ended on the RuntimeError.
C8_Witness ==
    /\ fatal = "RuntimeError"
    /\ CURRENT_STATE = "IDLE"
    /\ VIDEO_FEED_POPEN = "exited"

\* C9 as stated, by what it entails: with button_event running on its own
\* thread while update() is in progress, the outcome is that of the press
\* wholly before or wholly after the tick.  Then, as when the two run one
\* after another, no process is started while its predecessor still runs
\* (no effect is done twice for one PRINT_CHECK exit), and every write of
\* CURRENT_STATE goes along an edge of the transition table from the value it
\* overwrites (no thread overwrites the other's transition).
C9_Original ==
    /\ [](feed_orphans = 0 /\ preview_orphans = 0)
    /\ [][CURRENT_STATE' # CURRENT_STATE =>
            <<CURRENT_STATE, event', CURRENT_STATE'>> \in Edges]_vars

\* C10 as stated: CURRENT_PHOTO_PATH is unset in SLEEP, IDLE and COUNTDOWN.
C10_Original ==
    CURRENT_STATE \in {"SLEEP", "IDLE", "COUNTDOWN"} => CURRENT_PHOTO_PATH = "None"

\* C10 amended: CURRENT_PHOTO_PATH is unset initially, is set in every
\* PRINT_CHECK, is written only by the COUNTDOWN -> PRINT_CHECK tick, and is
\* never cleared: after PRINT_CHECK it keeps the last path.
C10_PhotoPathKept ==
    /\ [](/\ event = "none" => CURRENT_PHOTO_PATH = "None"
          /\ CURRENT_STATE = "PRINT_CHECK" => CURRENT_PHOTO_PATH \in PhotoPaths)
    /\ [][/\ CURRENT_PHOTO_PATH' # CURRENT_PHOTO_PATH =>
                /\ CURRENT_STATE = "COUNTDOWN"
                /\ CURRENT_STATE' = "PRINT_CHECK"
                /\ event' = "tick"
          /\ CURRENT_PHOTO_PATH # "None" => CURRENT_PHOTO_PATH' # "None"]_vars

\* C10 witness: PRINT_CHECK was left and the path is still set.
C10_Witness ==
    /\ CURRENT_STATE \in {"IDLE", "SLEEP"}
    /\ CURRENT_PHOTO_PATH \in PhotoPaths

\* C11: after every tick that completes, with or without a transition, the
\* lamp is what the policy gives for the state and TOTAL_TIME after the tick:
\* in SLEEP lit iff TOTAL_TIME mod BLINK_PERIOD > BLINK_PERIOD / 2 (the phase
\* is that of TOTAL_TIME, not of the time since SLEEP began), in IDLE and
\* PRINT_CHECK lit, in COUNTDOWN dark.
C11_LampPolicyAfterTick ==
    [][(event' = "tick" /\ fatal' = "none") =>
          /\ pin' = is_on'
          /\ CURRENT_STATE' = "SLEEP" =>
                 (pin' <=> 2 * (TOTAL_TIME' % (BLINK_PERIOD * Unit)) > BLINK_PERIOD * Unit)
          /\ CURRENT_STATE' \in {"IDLE", "PRINT_CHECK"} => pin'
          /\ CURRENT_STATE' = "COUNTDOWN" => ~pin']_vars

\* C11 witness: lit after a tick in SLEEP, in the second half of a period of
\* TOTAL_TIME that is the first half of a period counted from the SLEEP entry.
C11_Witness ==
    /\ CURRENT_STATE = "SLEEP"
    /\ event = "tick"
    /\ pin
    /\ 2 * (Elapsed % (BLINK_PERIOD * Unit)) <= BLINK_PERIOD * Unit

\* C12 as stated: after any press and after any tick, the lamp is lit in IDLE
\* and PRINT_CHECK and dark in COUNTDOWN.
C12_Original ==
    (event \in {"press", "tick"} /\ fatal = "none") =>
        /\ CURRENT_STATE \in {"IDLE", "PRINT_CHECK"} => pin
        /\ CURRENT_STATE = "COUNTDOWN" => ~pin

\* C12 amended: after every tick that completes, the lamp is lit in IDLE and
\* PRINT_CHECK and dark in COUNTDOWN; a press never writes the lamp, which
\* keeps the value it had before the press until the next tick.
C12_LampAtTickBoundary ==
    /\ []((event = "tick" /\ fatal = "none") =>
            /\ CURRENT_STATE \in {"IDLE", "PRINT_CHECK"} => (pin /\ is_on)
            /\ CURRENT_STATE = "COUNTDOWN" => (~pin /\ ~is_on))
    /\ [][event' = "press" =>
            /\ UNCHANGED <<is_on, pin>>
            /\ \A i \in 1..Len(calls') : calls'[i].op # "GPIO.output"]_vars

\* C12 witness: the first tick of a COUNTDOWN has turned the lamp off.
C12_Witness ==
    /\ CURRENT_STATE = "COUNTDOWN"
    /\ event = "tick"
    /\ ~pin
    /\ Call("GPIO.output", "0") \in {calls[i] : i \in 1..Len(calls)}

\* C13: when presses stop, ticks of positive dt keep coming and no error
\* ends the loop (no capture fails, no feed dies in IDLE), the controller
\* comes to SLEEP with neither feed nor preview running, and SLEEP is left
\* only by a press.
C13_ReturnsToSleep ==
    /\ (<>[](event # "press") /\ [](fatal = "none")) =>
           <>[](CURRENT_STATE = "SLEEP" /\ ~FeedActive /\ ~PreviewActive)
    /\ [][(CURRENT_STATE = "SLEEP" /\ event' # "press") =>
            (CURRENT_STATE' = "SLEEP" /\ ~FeedActive' /\ ~PreviewActive')]_vars

\* C13 witness: asleep again after a photo, and a tick has passed in SLEEP.
C13_Witness ==
    /\ CURRENT_STATE = "SLEEP"
    /\ event = "tick"
    /\ Elapsed > 0
    /\ VIDEO_FEED_POPEN = "exited"
    /\ PHOTO_PREVIEW_POPEN = "exited"

\* C14: TOTAL_TIME is 0 at the start, every call update(dt) adds exactly dt to
\* it (also a call that ends in an error), so it never decreases, and no
\* other event changes it.
C14_TotalTimeAccumulates ==
    /\ [](event = "none" => TOTAL_TIME = 0)
    /\ [][/\ \A dt \in DtSet : update(dt) => TOTAL_TIME' = TOTAL_TIME + dt
          /\ event' = "tick" => TOTAL_TIME' - TOTAL_TIME \in DtSet
          /\ event' # "tick" => TOTAL_TIME' = TOTAL_TIME
          /\ TOTAL_TIME' >= TOTAL_TIME]_vars

\* C14 witness: a press came after ticks had moved TOTAL_TIME.
C14_Witness ==
    /\ event = "press"
    /\ CURRENT_STATE = "COUNTDOWN"
    /\ TOTAL_TIME > 0

\* C15: one event applies at most one row of the table.  A call of update,
\* however large dt, leaves CURRENT_STATE as it is or moves it one row on
\* (COUNTDOWN to PRINT_CHECK, PRINT_CHECK to IDLE, IDLE to SLEEP), never two;
\* a press moves it at most one row on (SLEEP to IDLE, IDLE to COUNTDOWN,
\* PRINT_CHECK to IDLE); and no process is started or stopped twice by one
\* event.
C15_OneTransitionPerEvent ==
    [][/\ event' = "tick" =>
             \/ CURRENT_STATE' = CURRENT_STATE
             \/ <<CURRENT_STATE, CURRENT_STATE'>> \in
                    { <<"COUNTDOWN", "PRINT_CHECK">>, <<"PRINT_CHECK", "IDLE">>,
                      <<"IDLE", "SLEEP">> }
       /\ event' = "press" =>
             \/ CURRENT_STATE' = CURRENT_STATE
             \/ <<CURRENT_STATE, CURRENT_STATE'>> \in
                    { <<"SLEEP", "IDLE">>, <<"IDLE", "COUNTDOWN">>,
                      <<"PRINT_CHECK", "IDLE">> }
       /\ \A i, j \in 1..Len(calls') : calls'[i].op = calls'[j].op => i = j
       /\ CURRENT_STATE' = CURRENT_STATE =>
             Ops(calls') \subseteq {"GPIO.output", "kill_video_feed", "take_photo"}]_vars

\* C15 witness: PRINT_CHECK entered by a tick whose dt is larger than the
\* three durations together (no COUNTDOWN begins after PressHorizon, so a
\* later tick that ends one has that dt).
C15_Witness ==
    /\ CURRENT_STATE = "PRINT_CHECK"
    /\ event = "tick"
    /\ Elapsed = 0
    /\ TOTAL_TIME > PressHorizon + BigDt

\* C16: every change of CURRENT_STATE, by a press or by a tick, sets
\* STATE_START to the TOTAL_TIME of that moment, so the time in the state is 0
\* right after it; an event that changes no state leaves STATE_START alone;
\* and 0 <= STATE_START <= TOTAL_TIME always.
C16_StateStartTracksEntry ==
    /\ [](0 <= STATE_START /\ STATE_START <= TOTAL_TIME)
    /\ [][/\ CURRENT_STATE' # CURRENT_STATE =>
                (STATE_START' = TOTAL_TIME' /\ TOTAL_TIME' - STATE_START' = 0)
          /\ CURRENT_STATE' = CURRENT_STATE => STATE_START' = STATE_START]_vars

\* C16 witness: a COUNTDOWN just begun by a press, later than time 0.
C16_Witness ==
    /\ CURRENT_STATE = "COUNTDOWN"
    /\ event = "press"
    /\ STATE_START = TOTAL_TIME
    /\ STATE_START > 0

\* The number of processes started and not yet stopped after the calls cs,
\* when it was n before them; -1 when cs starts one while one is counted or
\* stops one while none is.
RECURSIVE Replay(_, _, _, _)
Replay(cs, n, start, stop) ==
    IF cs = <<>> \/ n = -1 THEN n
    ELSE IF Head(cs).op = start
         THEN Replay(Tail(cs), IF n = 0 THEN 1 ELSE -1, start, stop)
    ELSE IF Head(cs).op = stop
         THEN Replay(Tail(cs), IF n = 1 THEN 0 ELSE -1, start, stop)
    ELSE Replay(Tail(cs), n, start, stop)

FeedCount(state) == IF state \in {"IDLE", "COUNTDOWN"} THEN 1 ELSE 0
PreviewCount(state) == IF state = "PRINT_CHECK" THEN 1 ELSE 0

\* C17: with events applied one after another and no capture failing, the
\* number of feeds started and not yet stopped is 1 in IDLE and COUNTDOWN and
\* 0 in SLEEP and PRINT_CHECK, the number of previews 1 in PRINT_CHECK and 0
\* elsewhere: every event takes the counts of its state to the counts of the
\* next, starting no process while one is counted and stopping none while
\* none is.  No handle of a running process is overwritten, a running handle
\* is that of the state, and the handle that IDLE polls and that COUNTDOWN
\* and PRINT_CHECK stop has been started.
C17_ProcessCounts ==
    /\ [](/\ feed_orphans = 0 /\ preview_orphans = 0
          /\ VIDEO_FEED_POPEN = "running" => FeedCount(CURRENT_STATE) = 1
          /\ PHOTO_PREVIEW_POPEN = "running" => PreviewCount(CURRENT_STATE) = 1
          /\ FeedCount(CURRENT_STATE) = 1 => VIDEO_FEED_POPEN # "None"
          /\ PreviewCount(CURRENT_STATE) = 1 => PHOTO_PREVIEW_POPEN # "None")
    /\ [][fatal' = "none" =>
            /\ Replay(calls', FeedCount(CURRENT_STATE),
                      "start_video_feed", "kill_video_feed") = FeedCount(CURRENT_STATE')
            /\ Replay(calls', PreviewCount(CURRENT_STATE),
                      "start_photo_preview", "kill_photo_preview") = PreviewCount(CURRENT_STATE')
            /\ "start_video_feed" \in Ops(calls') => VIDEO_FEED_POPEN' = "running"
            /\ "start_photo_preview" \in Ops(calls') => PHOTO_PREVIEW_POPEN' = "running"
            /\ (FeedCount(CURRENT_STATE) = 1 /\ FeedCount(CURRENT_STATE') = 0) =>
                   VIDEO_FEED_POPEN' = "exited"
            /\ (PreviewCount(CURRENT_STATE) = 1 /\ PreviewCount(CURRENT_STATE') = 0) =>
                   PHOTO_PREVIEW_POPEN' = "exited"]_vars

\* C17 witness: IDLE after a PRINT_CHECK timed out: the preview stopped, the
\* second feed of the run started.
C17_Witness ==
    /\ CURRENT_STATE = "IDLE"
    /\ event = "tick"
    /\ "start_video_feed" \in Ops(calls)
    /\ VIDEO_FEED_POPEN = "running"
    /\ PHOTO_PREVIEW_POPEN = "exited"

GpioWrites(cs) == {i \in 1..Len(cs) : cs[i].op = "GPIO.output"}

\* C18: from its construction on, the LED's is_on is the value last written
\* to the pin; a call of on() or off() writes the pin, once and with the
\* value asked for, exactly when that value differs from is_on, and a
\* repeated on() or off() writes nothing.
C18_LedCache ==
    /\ [](pin = is_on)
    /\ [][/\ GpioWrites(calls') # {} <=> is_on' # is_on
          /\ Cardinality(GpioWrites(calls')) <= 1
          /\ \A i \in GpioWrites(calls') :
                 /\ calls'[i].arg = (IF is_on' THEN "1" ELSE "0")
                 /\ pin' = is_on'
          /\ GpioWrites(calls') = {} => pin' = pin]_vars

\* C18 witness: a tick in IDLE called on() with the LED on already: no write.
C18_Witness ==
    /\ CURRENT_STATE = "IDLE"
    /\ event = "tick"
    /\ Elapsed > 0
    /\ is_on
    /\ GpioWrites(calls) = {}

\* C19: a capture that fails, in the tick that would move COUNTDOWN to
\* PRINT_CHECK, ends the loop: the capture is tried once, CURRENT_STATE is
\* still COUNTDOWN, STATE_START and CURRENT_PHOTO_PATH are as before, the
\* feed has been stopped, no preview has been started, and no event is
\* handled afterwards.
C19_CaptureFailureFatal ==
    [][/\ fatal = "none"   \* every step starts with the loop alive
       /\ fatal' = "CalledProcessError" =>
             /\ event' = "tick"
             /\ CURRENT_STATE = "COUNTDOWN"
             /\ TOTAL_TIME' - STATE_START > COUNTDOWN_DURATION * Unit
             /\ UNCHANGED <<CURRENT_STATE, STATE_START, CURRENT_PHOTO_PATH,
                            PHOTO_PREVIEW_POPEN, preview_orphans>>
             /\ Cardinality({i \in 1..Len(calls') : calls'[i].op = "take_photo"}) = 1
             /\ Precedes("kill_video_feed", "take_photo", calls')
             /\ "start_photo_preview" \notin Ops(calls')
             /\ VIDEO_FEED_POPEN' = "exited"
             /\ PHOTO_PREVIEW_POPEN' # "running"]_vars

\* C19 witness: the loop has ended on a failed capture, the photo of an
\* earlier round still in CURRENT_PHOTO_PATH.
C19_Witness ==
    /\ fatal = "CalledProcessError"
    /\ CURRENT_STATE = "COUNTDOWN"
    /\ VIDEO_FEED_POPEN = "exited"
    /\ CURRENT_PHOTO_PATH \in PhotoPaths

\* C20 as stated: with main() driving update, a preview that the PRINT_CHECK
\* timeout ends has been on display for at least PRINT_CHECK_DURATION of wall
\* clock time since feh was started, however long kill_video_feed and
\* take_photo blocked the turn of the loop that started it.
C20_Original ==
    [][(/\ CURRENT_STATE = "PRINT_CHECK"
        /\ CURRENT_STATE' = "IDLE"
        /\ event' = "tick"
        /\ PHOTO_PREVIEW_POPEN = "running") =>
           now - shown_at >= PRINT_CHECK_DURATION * Unit]_vars

====
